---- MODULE Spec2Model ----
(***************************************************************************)
(* A model of photo_watermark.py: the date-watermark tool.                 *)
(*                                                                         *)
(* Text (file names, paths, colour strings, EXIF timestamps, dates) is a   *)
(* sequence of one-character strings, so that splitting, trimming,         *)
(* lower-casing, suffix tests, parsing and formatting are computed.        *)
(***************************************************************************)
EXTENDS Integers, Sequences, FiniteSets, TLC

VARIABLES
    position,       \* PhotoWatermark.position (the configured slot)
    pos_args,       \* arguments of a calculate_position call
    pos_result,     \* its return value, or Pending
    color_tokens,   \* the pieces the colour argument was written from
    color_str,      \* the colour argument (text)
    color_result,   \* parse_color's outcome, or Pending
    env,            \* the invocation and its surroundings: the operation called,
                    \* args.input_path, whether directories can be created,
                    \* today's date, the C library's year padding
    dirs,           \* the directories that exist (resolved paths)
    files,          \* the regular files that exist (resolved paths)
    pc,             \* the statement the program is at
    todo,           \* entries of os.listdir not yet iterated
    cur,            \* the running add_watermark / get_exif_date call
    date_text,      \* what get_exif_date returned to the running call
    diags,          \* diagnostics printed by the running call
    handles,        \* image files held open (paths, in opening order)
    aw_ret,         \* add_watermark's return value
    success_count,  \* process_directory's counter
    pd_ret,         \* process_directory's return value
    exit_code,      \* the process exit status
    read,           \* history: resolved paths Image.open was called on
    written,        \* history: resolved paths saved to
    call_count,     \* history: add_watermark calls of this run, per entry
    succeeded,      \* history: entries whose call returned True in this run
    faulted,        \* history: the surroundings raised an I/O fault in this run
    escaped,        \* history: an exception left add_watermark
    rerun,          \* history: this is the second run over the same input
    first_selected  \* history: the entries the first run passed on

posVars == <<position, pos_args, pos_result>>
colorVars == <<color_tokens, color_str, color_result>>
fsVars == <<dirs, files>>
callVars == <<cur, date_text, diags, handles, aw_ret>>
batchVars == <<todo, success_count, pd_ret>>
histVars == <<read, written, call_count, succeeded, faulted, escaped, rerun, first_selected>>
runVars == <<env, fsVars, pc, callVars, batchVars, exit_code, histVars>>
vars == <<posVars, colorVars, runVars>>

\* an operation's outcome before it has run
Pending == [done |-> FALSE]

-----------------------------------------------------------------------------
(* Text helpers.                                                           *)

Digits == <<"0", "1", "2", "3", "4", "5", "6", "7", "8", "9">>

IsDigit(c) == \E i \in 1..10 : Digits[i] = c

DigitVal(c) == (CHOOSE i \in 1..10 : Digits[i] = c) - 1

IsSpace(c) == c \in {" ", "\t", "\n"}

RECURSIVE Join(_, _)
\* sep.join(parts)
Join(parts, sep) ==
    IF Len(parts) = 0 THEN <<>>
    ELSE IF Len(parts) = 1 THEN parts[1]
    ELSE parts[1] \o sep \o Join(Tail(parts), sep)

RECURSIVE SplitFrom(_, _, _)
\* str.split(sep) for a one-character sep: piece is the piece being read
SplitFrom(s, sep, piece) ==
    IF Len(s) = 0 THEN <<piece>>
    ELSE IF Head(s) = sep THEN <<piece>> \o SplitFrom(Tail(s), sep, <<>>)
    ELSE SplitFrom(Tail(s), sep, Append(piece, Head(s)))

Split(s, sep) == SplitFrom(s, sep, <<>>)

RECURSIVE LStrip(_)
LStrip(s) == IF Len(s) > 0 /\ IsSpace(Head(s)) THEN LStrip(Tail(s)) ELSE s

RECURSIVE RStrip(_)
RStrip(s) ==
    IF Len(s) > 0 /\ IsSpace(s[Len(s)]) THEN RStrip(SubSeq(s, 1, Len(s) - 1)) ELSE s

\* str.strip()
Strip(s) == RStrip(LStrip(s))

RECURSIVE DigitsValue(_, _)
\* the value of a run of decimal digits, underscores skipped
DigitsValue(s, acc) ==
    IF Len(s) = 0 THEN acc
    ELSE IF Head(s) = "_" THEN DigitsValue(Tail(s), acc)
    ELSE DigitsValue(Tail(s), 10 * acc + DigitVal(Head(s)))

\* the body of an integer literal: digits, single underscores between them
IsIntBody(s) ==
    /\ Len(s) > 0
    /\ IsDigit(s[1]) /\ IsDigit(s[Len(s)])
    /\ \A i \in 1..Len(s) : IsDigit(s[i]) \/ s[i] = "_"
    /\ \A i \in 1..(Len(s) - 1) : ~(s[i] = "_" /\ s[i + 1] = "_")

\* int(text): [ok, val]; ok = FALSE stands for ValueError
ParseInt(text) ==
    LET t == Strip(text)
        signed == Len(t) > 0 /\ t[1] \in {"+", "-"}
        body == IF signed THEN Tail(t) ELSE t
    IN  IF IsIntBody(body)
        THEN [ok |-> TRUE,
              val |-> IF signed /\ t[1] = "-" THEN 0 - DigitsValue(body, 0)
                      ELSE DigitsValue(body, 0)]
        ELSE [ok |-> FALSE, val |-> 0]

-----------------------------------------------------------------------------
(* Paths (os.path on a POSIX system) and the file system.                  *)

UpperCase == <<"A", "B", "C", "D", "E", "F", "G", "H", "I", "J", "K", "L", "M",
               "N", "O", "P", "Q", "R", "S", "T", "U", "V", "W", "X", "Y", "Z">>

LowerCase == <<"a", "b", "c", "d", "e", "f", "g", "h", "i", "j", "k", "l", "m",
               "n", "o", "p", "q", "r", "s", "t", "u", "v", "w", "x", "y", "z">>

LowerChar(c) ==
    IF \E i \in 1..26 : UpperCase[i] = c
    THEN LowerCase[CHOOSE i \in 1..26 : UpperCase[i] = c]
    ELSE c

\* str.lower()
Lower(s) == [i \in 1..Len(s) |-> LowerChar(s[i])]

\* str.endswith(suffix)
EndsWith(s, suffix) ==
    /\ Len(suffix) <= Len(s)
    /\ SubSeq(s, Len(s) - Len(suffix) + 1, Len(s)) = suffix

\* the index of the last "/" of p, 0 when there is none
LastSlash(p) ==
    IF \E i \in 1..Len(p) : p[i] = "/"
    THEN CHOOSE i \in 1..Len(p) : p[i] = "/" /\ \A j \in (i + 1)..Len(p) : p[j] # "/"
    ELSE 0

RECURSIVE RStripSlash(_)
RStripSlash(s) ==
    IF Len(s) > 0 /\ s[Len(s)] = "/" THEN RStripSlash(SubSeq(s, 1, Len(s) - 1)) ELSE s

\* os.path.basename(p)
basename(p) == SubSeq(p, LastSlash(p) + 1, Len(p))

\* os.path.dirname(p): the head, its trailing slashes dropped unless it is all slashes
dirname(p) ==
    LET head == SubSeq(p, 1, LastSlash(p))
    IN  IF Len(head) > 0 /\ \E i \in 1..Len(head) : head[i] # "/"
        THEN RStripSlash(head)
        ELSE head

\* os.path.join(a, b)
join(a, b) ==
    IF Len(b) > 0 /\ b[1] = "/" THEN b
    ELSE IF Len(a) = 0 \/ a[Len(a)] = "/" THEN a \o b
    ELSE a \o <<"/">> \o b

RECURSIVE DropDots(_)
DropDots(parts) ==
    IF Len(parts) = 0 THEN <<>>
    ELSE IF parts[1] \in {<<>>, <<".">>} THEN DropDots(Tail(parts))
    ELSE <<parts[1]>> \o DropDots(Tail(parts))

Root == <<"/">>

\* the file the kernel resolves a path to: its components, Root first when it
\* is absolute, with empty and "." components dropped
Resolve(p) ==
    LET parts == DropDots(Split(p, "/"))
    IN  IF Len(p) > 0 /\ p[1] = "/" THEN <<Root>> \o parts ELSE parts

Ancestors(n) == { SubSeq(n, 1, k) : k \in 0..Len(n) }

Parent(n) == SubSeq(n, 1, Len(n) - 1)

-----------------------------------------------------------------------------
(* Dates: datetime.strptime, datetime.strftime, datetime.now.              *)

AllDigits(s) == \A i \in 1..Len(s) : IsDigit(s[i])

\* a field of one or two digits whose value lies in lo..hi
ShortField(s, lo, hi) ==
    /\ Len(s) \in {1, 2}
    /\ AllDigits(s)
    /\ DigitsValue(s, 0) >= lo /\ DigitsValue(s, 0) <= hi

\* %Y matches exactly four digits
YearField(s) == Len(s) = 4 /\ AllDigits(s)

\* %d also matches a space followed by one of 1..9
DayField(s) ==
    \/ ShortField(s, 1, 31)
    \/ Len(s) = 2 /\ s[1] = " " /\ IsDigit(s[2]) /\ s[2] # "0"

RECURSIVE TrailingDigits(_)
\* the digits a text ends with
TrailingDigits(s) ==
    IF Len(s) > 0 /\ IsDigit(s[Len(s)])
    THEN Append(TrailingDigits(SubSeq(s, 1, Len(s) - 1)), s[Len(s)])
    ELSE <<>>

IsLeap(y) == (y % 4 = 0 /\ y % 100 # 0) \/ y % 400 = 0

DaysInMonth(y, m) ==
    IF m = 2 THEN (IF IsLeap(y) THEN 29 ELSE 28)
    ELSE IF m \in {4, 6, 9, 11} THEN 30
    ELSE 31

\* datetime.strptime(text, "%Y:%m:%d %H:%M:%S"): the five pieces between the
\* colons are year, month, "day whitespace hour", minute, second; ok = FALSE
\* stands for ValueError
strptime(text) ==
    LET parts == Split(text, ":")
        mid == parts[3]
        hour == TrailingDigits(mid)
        before == SubSeq(mid, 1, Len(mid) - Len(hour))
        day == RStrip(before)
        y == DigitsValue(parts[1], 0)
        m == DigitsValue(parts[2], 0)
        d == DigitsValue(LStrip(day), 0)
        matches ==
            /\ Len(parts) = 5
            /\ YearField(parts[1])
            /\ ShortField(parts[2], 1, 12)
            /\ Len(day) < Len(before)
            /\ DayField(day)
            /\ ShortField(hour, 0, 23)
            /\ ShortField(parts[4], 0, 59)
            /\ ShortField(parts[5], 0, 61)
    IN  IF matches /\ y >= 1 /\ d <= DaysInMonth(y, m) /\ DigitsValue(parts[5], 0) <= 59
        THEN [ok |-> TRUE, date |-> <<y, m, d>>]
        ELSE [ok |-> FALSE, date |-> <<0, 0, 0>>]

RECURSIVE NatText(_)
\* the decimal digits of a natural number
NatText(n) == IF n < 10 THEN <<Digits[n + 1]>> ELSE Append(NatText(n \div 10), Digits[(n % 10) + 1])

RECURSIVE ZeroPad(_, _)
ZeroPad(s, width) == IF Len(s) >= width THEN s ELSE ZeroPad(<<"0">> \o s, width)

\* dt.strftime("%Y-%m-%d"): the C library formats %Y; glibc writes a year
\* below 1000 without leading zeros, other libraries pad it to four digits
strftime(date, pad_year) ==
    (IF pad_year THEN ZeroPad(NatText(date[1]), 4) ELSE NatText(date[1]))
        \o <<"-">> \o ZeroPad(NatText(date[2]), 2)
        \o <<"-">> \o ZeroPad(NatText(date[3]), 2)

\* EXIF timestamps a file may carry, each with the date it denotes
Timestamps ==
    { [text |-> <<"2", "0", "2", "3", ":", "0", "5", ":", "1", "7", " ", "1", "4", ":", "3", "0", ":", "0", "0">>,
       valid |-> TRUE, date |-> <<2023, 5, 17>>],
      [text |-> <<"2", "0", "2", "3", ":", "5", ":", "7", " ", "1", ":", "3", ":", "5">>,
       valid |-> TRUE, date |-> <<2023, 5, 7>>],
      [text |-> <<"0", "9", "9", "9", ":", "0", "1", ":", "0", "1", " ", "0", "0", ":", "0", "0", ":", "0", "0">>,
       valid |-> TRUE, date |-> <<999, 1, 1>>],
      [text |-> <<"2", "0", "2", "4", ":", "0", "2", ":", "2", "9", " ", "2", "3", ":", "5", "9", ":", "5", "9">>,
       valid |-> TRUE, date |-> <<2024, 2, 29>>],
      [text |-> <<"2", "0", "2", "3", ":", "0", "5", ":", "1", "7", "\t", " ", "1", "4", ":", "3", "0", ":", "0", "0">>,
       valid |-> TRUE, date |-> <<2023, 5, 17>>],
      [text |-> <<"2", "0", "2", "3", ":", "0", "2", ":", "2", "9", " ", "1", "0", ":", "0", "0", ":", "0", "0">>,
       valid |-> FALSE, date |-> <<0, 0, 0>>],
      [text |-> <<"1", "9", "0", "0", ":", "0", "2", ":", "2", "9", " ", "1", "0", ":", "0", "0", ":", "0", "0">>,
       valid |-> FALSE, date |-> <<0, 0, 0>>],
      [text |-> <<"2", "0", "2", "3", ":", "1", "3", ":", "0", "1", " ", "1", "0", ":", "0", "0", ":", "0", "0">>,
       valid |-> FALSE, date |-> <<0, 0, 0>>],
      [text |-> <<"2", "0", "2", "3", ":", "0", "5", ":", "1", "7", " ", "2", "4", ":", "0", "0", ":", "0", "0">>,
       valid |-> FALSE, date |-> <<0, 0, 0>>],
      [text |-> <<"2", "0", "2", "3", ":", "0", "5", ":", "1", "7", " ", "1", "4", ":", "3", "0", ":", "6", "0">>,
       valid |-> FALSE, date |-> <<0, 0, 0>>],
      [text |-> <<"2", "0", "2", "3", ":", "0", "5", ":", "1", "7">>,
       valid |-> FALSE, date |-> <<0, 0, 0>>],
      [text |-> <<"2", "0", "2", "3", "-", "0", "5", "-", "1", "7", " ", "1", "4", ":", "3", "0", ":", "0", "0">>,
       valid |-> FALSE, date |-> <<0, 0, 0>>],
      [text |-> <<"2", "0", "2", "3", ":", "0", "5", ":", "1", "7", " ", "1", "4", ":", "3", "0", ":", "0", "0", " ">>,
       valid |-> FALSE, date |-> <<0, 0, 0>>],
      [text |-> <<"0", "0", "0", "0", ":", "0", "1", ":", "0", "1", " ", "0", "0", ":", "0", "0", ":", "0", "0">>,
       valid |-> FALSE, date |-> <<0, 0, 0>>],
      [text |-> <<"2", "3", ":", "0", "5", ":", "1", "7", " ", "1", "4", ":", "3", "0", ":", "0", "0">>,
       valid |-> FALSE, date |-> <<0, 0, 0>>],
      [text |-> <<"g", "a", "r", "b", "a", "g", "e">>,
       valid |-> FALSE, date |-> <<0, 0, 0>>] }

\* ExifTags.TAGS restricted to the tags the files here carry
TAGS == (306 :> "DateTime") @@ (36867 :> "DateTimeOriginal") @@ (271 :> "Make")

Str(t) == [type |-> "str", text |-> t]
Bytes(t) == [type |-> "bytes", text |-> t]

\* bool(value)
Truthy(value) == Len(value.text) > 0

\* the body of get_exif_date once the image is open: exif.raises is
\* img._getexif() raising, exif.data the dictionary it returns (None and {}
\* are both the empty function); the result is the returned date and the
\* diagnostic printed
get_exif_date(exif, today, pad_year) ==
    LET fallback == strftime(today, pad_year)
        found == { tag \in DOMAIN TAGS :
                     TAGS[tag] = "DateTimeOriginal" /\ tag \in DOMAIN exif.data }
        date_time == exif.data[CHOOSE tag \in found : TRUE]
        dt == strptime(date_time.text)
    IN  IF exif.raises THEN [date |-> fallback, diag |-> "exif_error"]
        ELSE IF DOMAIN exif.data = {} \/ found = {} \/ ~Truthy(date_time)
            THEN [date |-> fallback, diag |-> "no_exif"]
        ELSE IF date_time.type # "str" THEN [date |-> fallback, diag |-> "exif_error"]
        ELSE IF dt.ok THEN [date |-> strftime(dt.date, pad_year), diag |-> "none"]
        ELSE [date |-> fallback, diag |-> "no_exif"]

-----------------------------------------------------------------------------
(* PhotoWatermark.calculate_position                                       *)

padding == 20

SlotNames ==
    {"left_top", "center_top", "right_top",
     "left_center", "center", "right_center",
     "left_bottom", "center_bottom", "right_bottom"}

calculate_position_swapped(slot, img_width, img_height, text_width, text_height) ==
    IF slot = "left_top" THEN <<padding, padding>>
    ELSE IF slot = "center_top" THEN <<(img_width - text_width) \div 2, padding>>
    ELSE IF slot = "right_top" THEN <<img_width - text_width - padding, padding>>
    ELSE IF slot = "left_center" THEN <<padding, (img_height - text_height) \div 2>>
    ELSE IF slot = "center"
        THEN <<(img_width - text_width) \div 2, (img_height - text_height) \div 2>>
    ELSE IF slot = "right_center"
        THEN <<img_width - text_width - padding, (img_height - text_height) \div 2>>
    ELSE IF slot = "left_bottom" THEN <<padding, img_height - text_height - padding>>
    ELSE IF slot = "center_bottom"
        THEN <<(img_width - text_width) \div 2, img_height - text_width - padding>>
    ELSE <<img_width - text_width - padding, img_height - text_height - padding>>

\* Python's // is floor division, as is \div
calculate_position(slot, img_width, img_height, text_width, text_height) ==
    IF slot = "left_top" THEN <<padding, padding>>
    ELSE IF slot = "center_top" THEN <<(img_width - text_width) \div 2, padding>>
    ELSE IF slot = "right_top" THEN <<img_width - text_width - padding, padding>>
    ELSE IF slot = "left_center" THEN <<padding, (img_height - text_height) \div 2>>
    ELSE IF slot = "center"
        THEN <<(img_width - text_width) \div 2, (img_height - text_height) \div 2>>
    ELSE IF slot = "right_center"
        THEN <<img_width - text_width - padding, (img_height - text_height) \div 2>>
    ELSE IF slot = "left_bottom" THEN <<padding, img_height - text_height - padding>>
    ELSE IF slot = "center_bottom"
        THEN <<(img_width - text_width) \div 2, img_height - text_height - padding>>
    ELSE IF slot = "right_bottom"
        THEN <<img_width - text_width - padding, img_height - text_height - padding>>
    ELSE <<img_width - text_width - padding, img_height - text_height - padding>>

MaxDim == 4
MaxText == 5

\* slots a PhotoWatermark can be constructed with: the nine names and others
SlotValues == SlotNames \cup {"bogus", "top_left", ""}

PosArgs ==
    [called : {TRUE},
     img_width : (1..MaxDim) \cup {800},
     img_height : (1..MaxDim) \cup {600},
     text_width : (0..MaxText) \cup {100},
     text_height : (0..MaxText) \cup {30}]

CalcPosition ==
    /\ ~pos_result.done
    /\ pos_args.called
    /\ pos_result' = [done |-> TRUE,
                      at |-> calculate_position(position, pos_args.img_width,
                        pos_args.img_height, pos_args.text_width, pos_args.text_height)]
    /\ UNCHANGED <<position, pos_args, colorVars, runVars>>

-----------------------------------------------------------------------------
(* parse_color                                                             *)

DefaultAlpha == 128
MaxByte == 255

Ok(v) == [ok |-> TRUE, value |-> v]
Err(why) == [ok |-> FALSE, reason |-> why]

RECURSIVE IntsOf(_)
\* [int(c.strip()) for c in tokens]
IntsOf(tokens) ==
    IF Len(tokens) = 0 THEN <<>>
    ELSE <<ParseInt(tokens[1])>> \o IntsOf(Tail(tokens))

parse_color_norange(str) ==
    LET ints == IntsOf(Split(str, ","))
        parsed == [i \in 1..Len(ints) |-> ints[i].val]
        components == IF Len(parsed) = 3 THEN Append(parsed, DefaultAlpha) ELSE parsed
    IN  IF \E i \in 1..Len(ints) : ~ints[i].ok THEN Err("literal")
        ELSE IF Len(components) # 4 THEN Err("count")
        ELSE IF \E i \in 1..4 : components[i] < 0 THEN Err("range")
        ELSE Ok(components)

parse_color(str) ==
    LET ints == IntsOf(Split(str, ","))
        parsed == [i \in 1..Len(ints) |-> ints[i].val]
        components == IF Len(parsed) = 3 THEN Append(parsed, DefaultAlpha) ELSE parsed
    IN  IF \E i \in 1..Len(ints) : ~ints[i].ok THEN Err("literal")
        ELSE IF Len(components) # 4 THEN Err("count")
        ELSE IF \E i \in 1..4 : components[i] < 0 \/ components[i] > MaxByte
            THEN Err("range")
        ELSE Ok(components)

\* pieces a colour argument is written from, each with what it denotes
ColorTokens ==
    { [text |-> <<"0">>, isInt |-> TRUE, val |-> 0],
      [text |-> <<"2", "5", "5">>, isInt |-> TRUE, val |-> 255],
      [text |-> <<"2", "5", "6">>, isInt |-> TRUE, val |-> 256],
      [text |-> <<"-", "1">>, isInt |-> TRUE, val |-> -1],
      [text |-> <<" ", "7", " ">>, isInt |-> TRUE, val |-> 7],
      [text |-> <<"+", "1", "_", "0">>, isInt |-> TRUE, val |-> 10],
      [text |-> <<"x">>, isInt |-> FALSE, val |-> 0],
      [text |-> <<>>, isInt |-> FALSE, val |-> 0] }

MaxComponents == 5

ColorInputs == UNION { [1..n -> ColorTokens] : n \in 1..MaxComponents }

ParseColor ==
    /\ ~color_result.done
    /\ Len(color_tokens) > 0
    /\ color_result' = [done |-> TRUE, out |-> parse_color(color_str)]
    /\ UNCHANGED <<color_tokens, color_str, posVars, runVars>>

-----------------------------------------------------------------------------
(* The file system calls the program makes.                                *)

\* os.path.isdir(p)
isdir(p) == Len(p) > 0 /\ Resolve(p) \in dirs

\* os.path.isfile(p)
isfile(p) == Len(p) > 0 /\ p[Len(p)] # "/" /\ Resolve(p) \in files

\* os.makedirs(path, exist_ok=True) where the directories ds and the files fs
\* exist: ok = FALSE stands for OSError (FileNotFoundError for the empty
\* path, PermissionError or FileExistsError when it cannot be created)
makedirs(path, ds, fs, creatable) ==
    LET target == Resolve(path)
    IN  IF Len(path) = 0 THEN [ok |-> FALSE, dirs |-> ds]
        ELSE IF target \in ds THEN [ok |-> TRUE, dirs |-> ds]
        ELSE IF creatable /\ Ancestors(target) \cap fs = {}
            THEN [ok |-> TRUE, dirs |-> ds \cup Ancestors(target)]
        ELSE [ok |-> FALSE, dirs |-> ds]

\* os.listdir(d): the names of the immediate entries of d
listdir(d, ds, fs) ==
    { x[Len(x)] : x \in { y \in ds \cup fs :
                            Len(y) > 0 /\ y[Len(y)] # Root /\ Parent(y) = Resolve(d) } }

-----------------------------------------------------------------------------
(* PhotoWatermark.process_directory and main: names and paths.             *)

image_extensions ==
    { <<".", "j", "p", "g">>, <<".", "j", "p", "e", "g">>, <<".", "p", "n", "g">>,
      <<".", "t", "i", "f", "f">>, <<".", "b", "m", "p">> }

IsImageName_cased(filename) == \E e \in image_extensions : EndsWith(filename, e)

\* filename.lower().endswith(image_extensions)
IsImageName(filename) == \E e \in image_extensions : EndsWith(Lower(filename), e)

Suffix == <<"_", "w", "a", "t", "e", "r", "m", "a", "r", "k">>

output_dir_inplace(dir) == dir

\* os.path.join(dir, os.path.basename(dir) + "_watermark")
output_dir_of(dir) == join(dir, basename(dir) \o Suffix)

\* os.path.dirname(args.input_path) or "."
dir_path_of(path) == IF Len(dirname(path)) = 0 THEN <<".">> ELSE dirname(path)

\* which except clause an exception raised at a statement reaches: the try
\* of add_watermark spans everything from its open to its save, nothing
\* encloses the makedirs of main and of process_directory
Catcher_narrow(site) ==
    IF site \in {"aw_open", "aw_draw"} THEN "add_watermark"
    ELSE "none"

Catcher(site) ==
    IF site \in {"aw_open", "aw_draw", "aw_makedirs", "aw_save"} THEN "add_watermark"
    ELSE "none"

-----------------------------------------------------------------------------
(* The inputs explored.                                                    *)

\* file names a directory may hold, each with whether its extension is one
\* of the five supported ones
EntryNames ==
    { [name |-> <<"a", ".", "j", "p", "g">>, supported |-> TRUE],
      [name |-> <<"b", ".", "J", "P", "E", "G">>, supported |-> TRUE],
      [name |-> <<"c", ".", "P", "n", "g">>, supported |-> TRUE],
      [name |-> <<"d", ".", "t", "i", "f", "f">>, supported |-> TRUE],
      [name |-> <<"e", ".", "B", "M", "P">>, supported |-> TRUE],
      [name |-> <<"g", ".", "j", "p", "g", ".", "b", "a", "k">>, supported |-> FALSE],
      [name |-> <<"j", "p", "g">>, supported |-> FALSE] }

MaxEntries == 2

\* three supported and two unsupported files
ExampleDir ==
    { <<"a", ".", "j", "p", "g">>, <<"b", ".", "J", "P", "E", "G">>,
      <<"c", ".", "P", "n", "g">>, <<"g", ".", "j", "p", "g", ".", "b", "a", "k">>, <<"j", "p", "g">> }

DirContents ==
    { c \in SUBSET { e.name : e \in EntryNames } : Cardinality(c) <= MaxEntries }

DirArgs == { <<"p">>, <<"p", "/">>, <<"d", ".", "p", "n", "g">> }

FileArgs == { <<"a", ".", "j", "p", "g">>, <<"p", "/", "b", ".", "J", "P", "G">>,
              <<"/", "a", ".", "j", "p", "g">> }

\* output paths add_watermark is called with directly
ApiOutputs == { <<"o", ".", "j", "p", "g">>, <<"n", "/", "o", ".", "j", "p", "g">>,
                <<"n", "/", "m", "/", "o", ".", "p", "n", "g">> }

NoExif == [raises |-> FALSE, data |-> <<>>]

GoodStamp == <<"2", "0", "2", "3", ":", "0", "5", ":", "1", "7", " ",
               "1", "4", ":", "3", "0", ":", "0", "0">>

\* what img._getexif() may do for a file of a run
RunExifs ==
    { NoExif,
      [raises |-> TRUE, data |-> <<>>],
      [raises |-> FALSE, data |-> (36867 :> Str(GoodStamp))] }

\* what img._getexif() may do for the file get_exif_date is studied on
DateExifs ==
    { NoExif,
      [raises |-> TRUE, data |-> <<>>],
      [raises |-> FALSE, data |-> (271 :> Str(<<"X">>))],
      [raises |-> FALSE, data |-> (306 :> Str(GoodStamp))],
      [raises |-> FALSE, data |-> (36867 :> Bytes(GoodStamp))],
      [raises |-> FALSE, data |-> (36867 :> Str(<<>>))] }
        \cup { [raises |-> FALSE, data |-> (36867 :> Str(t.text)) @@ (306 :> Str(GoodStamp))] :
                 t \in Timestamps }

RunToday == <<2024, 2, 9>>

Todays == { RunToday, <<2026, 11, 30>> }

NoCall == [active |-> FALSE]

Call(image, output) == [active |-> TRUE, image_path |-> image, output_path |-> output]

-----------------------------------------------------------------------------
(* PhotoWatermark.get_exif_date, as called.                                *)

\* where control goes when get_exif_date returns
AfterExif == IF env.op = "get_exif_date" THEN "returned" ELSE "aw_open"

Closed_leak(hs) == hs

\* the with statement's exit: the handle opened last is closed
Closed(hs) == SubSeq(hs, 1, Len(hs) - 1)

\* Image.open(image_path) at line 54 succeeds
GE_Open ==
    /\ pc = "ge_open"
    /\ Resolve(cur.image_path) \in files
    /\ handles' = Append(handles, cur.image_path)
    /\ read' = read \cup {Resolve(cur.image_path)}
    /\ pc' = "ge_body"
    /\ UNCHANGED <<posVars, colorVars, env, fsVars, cur, date_text, diags, aw_ret,
                   batchVars, exit_code, written, call_count, succeeded, faulted,
                   escaped, rerun, first_selected>>

\* Image.open(image_path) at line 54 raises: lines 78-81
GE_OpenFails ==
    /\ pc = "ge_open"
    /\ read' = read \cup {Resolve(cur.image_path)}
    /\ diags' = diags \cup {"exif_error"}
    /\ date_text' = strftime(env.today, env.pad_year)
    /\ faulted' = TRUE
    /\ pc' = AfterExif
    /\ UNCHANGED <<posVars, colorVars, env, fsVars, cur, handles, aw_ret, batchVars,
                   exit_code, written, call_count, succeeded, escaped, rerun,
                   first_selected>>

\* lines 55-81 with the image open; the with statement closes it on every path
GE_Body ==
    /\ pc = "ge_body"
    /\ \E exif \in (IF "exif" \in DOMAIN cur THEN {cur.exif} ELSE RunExifs) :
          LET r == get_exif_date(exif, env.today, env.pad_year)
          IN  /\ date_text' = r.date
              /\ diags' = IF r.diag = "none" THEN diags ELSE diags \cup {r.diag}
    /\ handles' = Closed(handles)
    /\ pc' = AfterExif
    /\ UNCHANGED <<posVars, colorVars, env, fsVars, cur, aw_ret, batchVars, exit_code,
                   histVars>>

-----------------------------------------------------------------------------
(* PhotoWatermark.add_watermark.  The pixels are not modelled: copying,    *)
(* measuring, positioning and drawing are one step that succeeds or raises.*)

\* an exception raised at a statement of add_watermark, the image closed or
\* never opened: lines 168-170 when the try encloses the statement, else the
\* exception leaves add_watermark and ends the program
AW_Raise(site) ==
    IF Catcher(site) = "add_watermark"
    THEN /\ diags' = diags \cup {"aw_error"}
         /\ aw_ret' = [done |-> TRUE, value |-> FALSE]
         /\ pc' = "aw_ret"
         /\ UNCHANGED <<escaped, exit_code>>
    ELSE /\ escaped' = TRUE
         /\ exit_code' = 1
         /\ pc' = "exit"
         /\ UNCHANGED <<diags, aw_ret>>

\* Image.open(image_path) at line 136 succeeds
AW_Open ==
    /\ pc = "aw_open"
    /\ Resolve(cur.image_path) \in files
    /\ handles' = Append(handles, cur.image_path)
    /\ read' = read \cup {Resolve(cur.image_path)}
    /\ pc' = "aw_draw"
    /\ UNCHANGED <<posVars, colorVars, env, fsVars, cur, date_text, diags, aw_ret,
                   batchVars, exit_code, written, call_count, succeeded, faulted,
                   escaped, rerun, first_selected>>

\* Image.open(image_path) at line 136 raises
AW_OpenFails ==
    /\ pc = "aw_open"
    /\ AW_Raise("aw_open")
    /\ read' = read \cup {Resolve(cur.image_path)}
    /\ faulted' = TRUE
    /\ UNCHANGED <<posVars, colorVars, env, fsVars, cur, date_text, handles, batchVars,
                   written, call_count, succeeded, rerun, first_selected>>

\* lines 138-157 succeed
AW_Draw ==
    /\ pc = "aw_draw"
    /\ pc' = "aw_makedirs"
    /\ UNCHANGED <<posVars, colorVars, env, fsVars, callVars, batchVars, exit_code,
                   histVars>>

\* one of lines 138-157 raises
AW_DrawFails ==
    /\ pc = "aw_draw"
    /\ AW_Raise("aw_draw")
    /\ handles' = Closed(handles)
    /\ faulted' = TRUE
    /\ UNCHANGED <<posVars, colorVars, env, fsVars, cur, date_text, batchVars, read,
                   written, call_count, succeeded, rerun, first_selected>>

\* line 160: os.makedirs(os.path.dirname(output_path), exist_ok=True)
AW_MakeDirs ==
    /\ pc = "aw_makedirs"
    /\ LET made == makedirs(dirname(cur.output_path), dirs, files, env.can_create)
       IN  IF made.ok
           THEN /\ dirs' = made.dirs
                /\ pc' = "aw_save"
                /\ UNCHANGED <<diags, aw_ret, handles, escaped, exit_code, faulted>>
           ELSE /\ AW_Raise("aw_makedirs")
                /\ handles' = Closed(handles)
                /\ faulted' = (faulted \/ Len(dirname(cur.output_path)) > 0)
                /\ UNCHANGED dirs
    /\ UNCHANGED <<posVars, colorVars, env, files, cur, date_text, batchVars, read,
                   written, call_count, succeeded, rerun, first_selected>>

\* lines 163-166: the save succeeds, the image is closed, True is returned
AW_Save ==
    /\ pc = "aw_save"
    /\ Resolve(cur.output_path) \notin dirs
    /\ files' = files \cup {Resolve(cur.output_path)}
    /\ written' = written \cup {Resolve(cur.output_path)}
    /\ diags' = diags \cup {"saved"}
    /\ aw_ret' = [done |-> TRUE, value |-> TRUE]
    /\ handles' = Closed(handles)
    /\ pc' = "aw_ret"
    /\ UNCHANGED <<posVars, colorVars, env, dirs, cur, date_text, batchVars, exit_code,
                   read, call_count, succeeded, faulted, escaped, rerun, first_selected>>

\* line 163 raises
AW_SaveFails ==
    /\ pc = "aw_save"
    /\ AW_Raise("aw_save")
    /\ handles' = Closed(handles)
    /\ faulted' = TRUE
    /\ UNCHANGED <<posVars, colorVars, env, fsVars, cur, date_text, batchVars, read,
                   written, call_count, succeeded, rerun, first_selected>>

\* add_watermark has returned: back in its caller, the call's locals are gone
AW_Return ==
    /\ pc = "aw_ret"
    /\ pc' = IF env.op = "add_watermark" THEN "returned"
             ELSE IF isdir(env.input_path) THEN "pd_after"
             ELSE "main_after"
    /\ succeeded' = IF aw_ret.value THEN succeeded \cup {basename(cur.image_path)}
                    ELSE succeeded
    /\ cur' = NoCall /\ date_text' = <<>> /\ diags' = {}
    /\ UNCHANGED <<posVars, colorVars, env, fsVars, handles, aw_ret, batchVars, exit_code,
                   read, written, call_count, faulted, escaped, rerun, first_selected>>

-----------------------------------------------------------------------------
(* PhotoWatermark.process_directory.                                       *)

NoCounts == [n \in {} |-> 0]

NotRun == [done |-> FALSE]

\* a fresh add_watermark call from a caller
StartCall(image, output) ==
    /\ cur' = Call(image, output)
    /\ date_text' = <<>>
    /\ diags' = {}
    /\ aw_ret' = NotRun
    /\ pc' = "ge_open"

\* where control goes when process_directory returns
AfterBatch == IF env.op = "main" THEN "main_count" ELSE "returned"

\* lines 182-184: not a directory
PD_NotDir ==
    /\ pc = "pd_start"
    /\ ~isdir(env.input_path)
    /\ pd_ret' = [done |-> TRUE, value |-> 0]
    /\ pc' = AfterBatch
    /\ UNCHANGED <<posVars, colorVars, env, fsVars, callVars, todo, success_count,
                   exit_code, histVars>>

\* lines 186-195: the output directory is made and the directory is listed;
\* an OSError of os.makedirs is caught nowhere
PD_Start ==
    /\ pc = "pd_start"
    /\ isdir(env.input_path)
    /\ LET output_dir == output_dir_of(env.input_path)
           made == makedirs(output_dir, dirs, files, env.can_create)
           listing == listdir(env.input_path, made.dirs, files)
       IN  IF made.ok
           THEN /\ dirs' = made.dirs
                /\ todo' = listing
                /\ success_count' = 0
                /\ call_count' = [n \in listing |-> 0]
                /\ pc' = "pd_loop"
                /\ UNCHANGED <<exit_code, faulted>>
           ELSE /\ exit_code' = 1
                /\ faulted' = TRUE
                /\ pc' = IF env.op = "main" THEN "exit" ELSE "raised"
                /\ UNCHANGED <<dirs, todo, success_count, call_count>>
    /\ UNCHANGED <<posVars, colorVars, env, files, callVars, pd_ret, read, written,
                   succeeded, escaped, rerun, first_selected>>

\* line 195: os.listdir raises (the directory cannot be read) after the output
\* directory was made; the OSError is caught nowhere
PD_ListFails ==
    /\ pc = "pd_start"
    /\ isdir(env.input_path)
    /\ LET made == makedirs(output_dir_of(env.input_path), dirs, files, env.can_create)
       IN  /\ made.ok
           /\ dirs' = made.dirs
    /\ exit_code' = 1
    /\ faulted' = TRUE
    /\ pc' = IF env.op = "main" THEN "exit" ELSE "raised"
    /\ UNCHANGED <<posVars, colorVars, env, files, callVars, batchVars, read, written,
                   call_count, succeeded, escaped, rerun, first_selected>>

\* lines 195-200: the next entry, in the order os.listdir gives; not an image
PD_Skip ==
    /\ pc = "pd_loop"
    /\ \E filename \in todo :
          /\ ~IsImageName(filename)
          /\ todo' = todo \ {filename}
    /\ UNCHANGED <<posVars, colorVars, env, fsVars, pc, callVars, success_count, pd_ret,
                   exit_code, histVars>>

\* lines 195-200: the next entry is an image: add_watermark is called
PD_Call ==
    /\ pc = "pd_loop"
    /\ \E filename \in todo :
          /\ IsImageName(filename)
          /\ todo' = todo \ {filename}
          /\ call_count' = [call_count EXCEPT ![filename] = @ + 1]
          /\ StartCall(join(env.input_path, filename),
                       join(output_dir_of(env.input_path), filename))
    /\ UNCHANGED <<posVars, colorVars, env, fsVars, handles, success_count, pd_ret,
                   exit_code, read, written, succeeded, faulted, escaped, rerun,
                   first_selected>>

PD_AfterCall_break ==
    /\ pc = "pd_after"
    /\ success_count' = IF aw_ret.value THEN success_count + 1 ELSE success_count
    /\ todo' = IF aw_ret.value THEN todo ELSE {}
    /\ pc' = "pd_loop"
    /\ UNCHANGED <<posVars, colorVars, env, fsVars, callVars, pd_ret, exit_code, histVars>>

\* lines 200-201: the call's result is counted and the loop goes on
PD_AfterCall ==
    /\ pc = "pd_after"
    /\ success_count' = IF aw_ret.value THEN success_count + 1 ELSE success_count
    /\ pc' = "pd_loop"
    /\ UNCHANGED <<posVars, colorVars, env, fsVars, callVars, todo, pd_ret, exit_code,
                   histVars>>

\* line 203
PD_Return ==
    /\ pc = "pd_loop"
    /\ todo = {}
    /\ pd_ret' = [done |-> TRUE, value |-> success_count]
    /\ pc' = AfterBatch
    /\ UNCHANGED <<posVars, colorVars, env, fsVars, callVars, todo, success_count,
                   exit_code, histVars>>

-----------------------------------------------------------------------------
(* main, after the arguments have parsed.                                  *)

\* lines 280-282
MainDir ==
    /\ pc = "main"
    /\ isdir(env.input_path)
    /\ pc' = "pd_start"
    /\ UNCHANGED <<posVars, colorVars, env, fsVars, callVars, batchVars, exit_code,
                   histVars>>

\* lines 284-295: a single file; an OSError of os.makedirs is caught nowhere
\* and ends the program with a traceback and status 1
MainFile ==
    /\ pc = "main"
    /\ ~isdir(env.input_path)
    /\ isfile(env.input_path)
    /\ LET filename == basename(env.input_path)
           output_dir == output_dir_of(dir_path_of(env.input_path))
           made == makedirs(output_dir, dirs, files, env.can_create)
       IN  IF made.ok
           THEN /\ dirs' = made.dirs
                /\ StartCall(env.input_path, join(output_dir, filename))
                /\ UNCHANGED <<exit_code, faulted>>
           ELSE /\ exit_code' = 1
                /\ faulted' = TRUE
                /\ pc' = "exit"
                /\ UNCHANGED <<dirs, cur, date_text, diags, aw_ret>>
    /\ UNCHANGED <<posVars, colorVars, env, files, handles, batchVars, read, written,
                   call_count, succeeded, escaped, rerun, first_selected>>

\* lines 299-301
MainMissing ==
    /\ pc = "main"
    /\ ~isdir(env.input_path)
    /\ ~isfile(env.input_path)
    /\ exit_code' = 1
    /\ pc' = "exit"
    /\ UNCHANGED <<posVars, colorVars, env, fsVars, callVars, batchVars, histVars>>

\* lines 283 and 303, lines 295-298 and 303: return 0
MainReturn ==
    /\ pc \in {"main_count", "main_after"}
    /\ exit_code' = 0
    /\ pc' = "exit"
    /\ UNCHANGED <<posVars, colorVars, env, fsVars, callVars, batchVars, histVars>>

\* the same command is run a second time: the file system is as the first
\* run left it
RunAgain ==
    /\ pc = "exit"
    /\ env.op = "main"
    /\ exit_code = 0
    /\ ~rerun
    /\ rerun' = TRUE
    /\ first_selected' = { n \in DOMAIN call_count : call_count[n] > 0 }
    /\ pc' = "main"
    /\ exit_code' = -1
    /\ cur' = NoCall /\ date_text' = <<>> /\ diags' = {} /\ aw_ret' = NotRun
    /\ todo' = {} /\ success_count' = 0 /\ pd_ret' = NotRun
    /\ call_count' = NoCounts /\ succeeded' = {} /\ faulted' = FALSE
    /\ UNCHANGED <<posVars, colorVars, env, fsVars, handles, read, written, escaped>>

-----------------------------------------------------------------------------
(* Specifications.                                                         *)

PosIdle ==
    position = "right_bottom" /\ pos_args = [called |-> FALSE] /\ pos_result = Pending

ColorIdle == color_tokens = <<>> /\ color_str = <<>> /\ color_result = Pending

\* nothing has run yet
RunFresh ==
    /\ todo = {} /\ success_count = 0 /\ pd_ret = NotRun
    /\ date_text = <<>> /\ diags = {} /\ handles = <<>> /\ aw_ret = NotRun
    /\ exit_code = -1
    /\ read = {} /\ written = {} /\ call_count = NoCounts /\ succeeded = {}
    /\ faulted = FALSE /\ escaped = FALSE /\ rerun = FALSE /\ first_selected = {}

RunIdle ==
    /\ env = [op |-> "none"]
    /\ dirs = {} /\ files = {} /\ pc = "idle" /\ cur = NoCall
    /\ RunFresh

InitPos ==
    /\ position \in SlotValues
    /\ pos_args \in PosArgs
    /\ pos_result = Pending
    /\ ColorIdle /\ RunIdle

SpecPos == InitPos /\ [][CalcPosition]_vars

InitColor ==
    /\ color_tokens \in ColorInputs
    /\ color_str = Join([i \in 1..Len(color_tokens) |-> color_tokens[i].text], <<",">>)
    /\ color_result = Pending
    /\ PosIdle /\ RunIdle

SpecColor == InitColor /\ [][ParseColor]_vars

\* get_exif_date called on one file
InitDate ==
    /\ env \in [op : {"get_exif_date"}, input_path : {<<"a", ".", "j", "p", "g">>},
                can_create : {TRUE}, today : Todays, pad_year : BOOLEAN]
    /\ cur \in [active : {TRUE}, image_path : {env.input_path}, exif : DateExifs]
    /\ files \in {{}, {Resolve(env.input_path)}}
    /\ dirs = {<<>>}
    /\ pc = "ge_open"
    /\ RunFresh /\ PosIdle /\ ColorIdle

NextDate == GE_Open \/ GE_OpenFails \/ GE_Body

SpecDate == InitDate /\ [][NextDate]_vars

\* the file systems a run starts in: a directory with some content, a single
\* file, or nothing at the input path; no output directory is there yet
Worlds ==
    { [input_path |-> d,
       files |-> { Resolve(join(d, n)) : n \in c },
       dirs |-> Ancestors(Resolve(d))] : d \in DirArgs, c \in DirContents }
    \cup
    { [input_path |-> <<"p">>,
       files |-> { Resolve(join(<<"p">>, n)) : n \in ExampleDir },
       dirs |-> Ancestors(Resolve(<<"p">>))] }
    \cup
    { [input_path |-> f,
       files |-> {Resolve(f)},
       dirs |-> Ancestors(Parent(Resolve(f)))] : f \in FileArgs }
    \cup
    { [input_path |-> q, files |-> {}, dirs |-> {<<>>}] :
        q \in {<<"q">>, <<"q", ".", "j", "p", "g">>} }

\* main or process_directory is run on an input path
InitMain ==
    /\ \E w \in Worlds, op \in {"main", "process_directory"}, c \in BOOLEAN :
          /\ env = [op |-> op, input_path |-> w.input_path, can_create |-> c,
                    today |-> RunToday, pad_year |-> TRUE]
          /\ files = w.files
          /\ dirs = w.dirs
          /\ pc = IF op = "main" THEN "main" ELSE "pd_start"
    /\ cur = NoCall

\* add_watermark is called directly on an image and an output path
InitCall ==
    /\ \E o \in ApiOutputs, c \in BOOLEAN, pre \in BOOLEAN :
          /\ env = [op |-> "add_watermark", input_path |-> <<"a", ".", "j", "p", "g">>,
                    can_create |-> c, today |-> RunToday, pad_year |-> TRUE]
          /\ cur = Call(env.input_path, o)
          /\ files = {Resolve(env.input_path)}
          /\ dirs = IF pre THEN Ancestors(Resolve(dirname(o))) ELSE {<<>>}
    /\ pc = "ge_open"

InitRun ==
    /\ InitMain \/ InitCall
    /\ RunFresh /\ PosIdle /\ ColorIdle

Next ==
    \/ MainDir \/ MainFile \/ MainMissing \/ MainReturn \/ RunAgain
    \/ PD_NotDir \/ PD_Start \/ PD_ListFails \/ PD_Skip \/ PD_Call \/ PD_AfterCall \/ PD_Return
    \/ GE_Open \/ GE_OpenFails \/ GE_Body
    \/ AW_Open \/ AW_OpenFails \/ AW_Draw \/ AW_DrawFails \/ AW_MakeDirs
    \/ AW_Save \/ AW_SaveFails \/ AW_Return

Spec == InitRun /\ [][Next]_vars

-----------------------------------------------------------------------------
(* calculate_position, stated per axis.                                    *)

HAxis(slot) ==
    IF slot \in {"left_top", "left_center", "left_bottom"} THEN "start"
    ELSE IF slot \in {"center_top", "center", "center_bottom"} THEN "center"
    ELSE "end"

VAxis(slot) ==
    IF slot \in {"left_top", "center_top", "right_top"} THEN "start"
    ELSE IF slot \in {"left_center", "center", "right_center"} THEN "center"
    ELSE "end"

\* floor((dim - text) / 2) stated without division
IsFloorHalf(q, n) == 2 * q <= n /\ n < 2 * q + 2

AxisOk(kind, coord, dim, text) ==
    IF kind = "start" THEN coord = 20
    ELSE IF kind = "end" THEN coord = dim - text - 20
    ELSE IsFloorHalf(coord, dim - text)

PosExample ==
    pos_args = [called |-> TRUE, img_width |-> 800, img_height |-> 600,
                text_width |-> 100, text_height |-> 30]

(* C1: calculate_position computes each axis on its own: a start axis      *)
(* (left/top) gives 20, an end axis (right/bottom) gives dimension -       *)
(* textDimension - 20, a centre axis gives floor((dimension -              *)
(* textDimension) / 2); a slot that is none of the nine names gives the    *)
(* bottom-right result on both axes; bottom-right on (800,600,100,30) is   *)
(* (680,550), centre is (350,285), top-left is always (20,20).             *)
C1_Position ==
    pos_result.done =>
        /\ AxisOk(HAxis(position), pos_result.at[1], pos_args.img_width, pos_args.text_width)
        /\ AxisOk(VAxis(position), pos_result.at[2], pos_args.img_height, pos_args.text_height)
        /\ position \notin SlotNames =>
              pos_result.at = <<pos_args.img_width - pos_args.text_width - 20,
                             pos_args.img_height - pos_args.text_height - 20>>
        /\ (PosExample /\ position = "right_bottom") => pos_result.at = <<680, 550>>
        /\ (PosExample /\ position = "center") => pos_result.at = <<350, 285>>
        /\ position = "left_top" => pos_result.at = <<20, 20>>

\* a centred axis with a text larger than the canvas: a negative odd difference
C1_Witness ==
    /\ position = "center_bottom"
    /\ pos_args.img_width = 2 /\ pos_args.text_width = 5
    /\ pos_result.done
    /\ pos_result.at[1] = -2

-----------------------------------------------------------------------------
(* parse_color, stated on the pieces the argument was written from.        *)

ColorValid ==
    /\ Len(color_tokens) \in {3, 4}
    /\ \A i \in 1..Len(color_tokens) :
          /\ color_tokens[i].isInt
          /\ color_tokens[i].val >= 0
          /\ color_tokens[i].val <= 255

ColorExpected ==
    LET given == [i \in 1..Len(color_tokens) |-> color_tokens[i].val]
    IN  IF Len(given) = 3 THEN Append(given, 128) ELSE given

(* C6: parse_color succeeds exactly when the input splits on commas into 3 *)
(* or 4 pieces that, trimmed, are all integers in [0,255]; the result is   *)
(* then the 4-tuple of the supplied components in order, with alpha 128    *)
(* appended when 3 were supplied; every other input fails with the         *)
(* argument error and yields no value.                                     *)
C6_ParseColor ==
    color_result.done =>
        /\ color_result.out.ok <=> ColorValid
        /\ color_result.out.ok =>
              /\ color_result.out.value = ColorExpected
              /\ Len(color_result.out.value) = 4
              /\ \A i \in 1..4 : color_result.out.value[i] \in 0..255
        /\ ~color_result.out.ok => DOMAIN color_result.out = {"ok", "reason"}

C6_Witness ==
    /\ color_result.done
    /\ color_result.out.ok
    /\ Len(color_tokens) = 3
    /\ color_tokens[2].text = <<" ", "7", " ">>
    /\ color_result.out.value[4] = 128

-----------------------------------------------------------------------------
(* get_exif_date, stated on the dates the timestamps denote.               *)

IsIsoDate(s) ==
    /\ Len(s) = 10
    /\ s[5] = "-" /\ s[8] = "-"
    /\ \A i \in {1, 2, 3, 4, 6, 7, 9, 10} : IsDigit(s[i])

\* YYYY-MM-DD written out digit by digit
Iso(date) ==
    << Digits[(date[1] \div 1000) + 1], Digits[((date[1] \div 100) % 10) + 1],
       Digits[((date[1] \div 10) % 10) + 1], Digits[(date[1] % 10) + 1], "-",
       Digits[(date[2] \div 10) + 1], Digits[(date[2] % 10) + 1], "-",
       Digits[(date[3] \div 10) + 1], Digits[(date[3] % 10) + 1] >>

DateReturned == env.op = "get_exif_date" /\ pc = "returned"

\* the file could be opened and carries a DateTimeOriginal text that denotes a date
HasCaptureDate ==
    /\ ~faulted
    /\ ~cur.exif.raises
    /\ 36867 \in DOMAIN cur.exif.data
    /\ cur.exif.data[36867].type = "str"
    /\ \E t \in Timestamps : t.valid /\ t.text = cur.exif.data[36867].text

CaptureDate ==
    (CHOOSE t \in Timestamps : t.valid /\ t.text = cur.exif.data[36867].text).date

(* C2: get_exif_date never raises and always returns a string of the form  *)
(* YYYY-MM-DD: the date of a DateTimeOriginal value that parses as         *)
(* "YYYY:MM:DD HH:MM:SS", reformatted; in every other case (no metadata,   *)
(* empty dictionary, tag missing, unparsable or non-text value, error      *)
(* opening the file or reading metadata) the current local date, with a    *)
(* fallback diagnostic.                                                    *)
C2_ExifDate ==
    DateReturned =>
        /\ IsIsoDate(date_text)
        /\ IF HasCaptureDate
           THEN date_text = Iso(CaptureDate)
           ELSE /\ date_text = Iso(env.today)
                /\ diags \cap {"no_exif", "exif_error"} # {}

-----------------------------------------------------------------------------
(* History of a batch.                                                     *)

\* the entry's extension is one of the five supported ones, whatever its case
Supported(n) == \E e \in EntryNames : e.name = n /\ e.supported

Selected == { n \in DOMAIN call_count : call_count[n] > 0 }

BatchReturned == pd_ret.done /\ isdir(env.input_path)

OutputDir == Resolve(output_dir_of(env.input_path))

\* C3: in a batch run add_watermark is invoked exactly once for every
\* enumerated supported entry whatever the outcome of the earlier entries: a
\* file whose rendering fails never stops the loop, and the returned success
\* count equals the number of invocations that returned True.
C3_Batch ==
    /\ \A n \in DOMAIN call_count : call_count[n] <= 1
    /\ BatchReturned =>
          /\ \A n \in DOMAIN call_count : Supported(n) => call_count[n] = 1
          /\ pd_ret.value = Cardinality(succeeded)
          /\ succeeded \subseteq Selected

\* a batch in which a failure came before a success
C3_Witness ==
    /\ BatchReturned
    /\ faulted
    /\ Cardinality(Selected) = 3
    /\ Cardinality(succeeded) = 2

\* C4: process_directory selects exactly the immediate entries whose name
\* ends, case-insensitively, in .jpg, .jpeg, .png, .tiff or .bmp; when no I/O
\* error occurs the returned count is the number of such entries and the
\* output directory holds exactly one output per selected entry, under the
\* same name, and none for any other entry (3 supported and 2 unsupported
\* files give 3 outputs and a count of 3).
C4_Select ==
    BatchReturned =>
        /\ Selected = { n \in DOMAIN call_count : Supported(n) }
        /\ ~faulted =>
              /\ pd_ret.value = Cardinality({ n \in DOMAIN call_count : Supported(n) })
              /\ listdir(output_dir_of(env.input_path), dirs, files) = Selected
              /\ written = { Append(OutputDir, n) : n \in Selected }
              /\ (/\ Cardinality(DOMAIN call_count \ {OutputDir[Len(OutputDir)]}) = 5
                  /\ Cardinality(Selected) = 3)
                 => (pd_ret.value = 3 /\ Cardinality(written) = 3)

C4_Witness ==
    /\ BatchReturned
    /\ ~faulted
    /\ Cardinality(DOMAIN call_count) = 6
    /\ <<"b", ".", "J", "P", "E", "G">> \in Selected
    /\ pd_ret.value = 3
    /\ Cardinality(written) = 3

-----------------------------------------------------------------------------
(* C5: add_watermark never propagates an exception to its caller: if       *)
(* opening the input, measuring, drawing, creating the output directory or *)
(* saving fails it prints a diagnostic and returns False; it returns True  *)
(* only after the save to output_path has completed.                       *)
C5_Renderer ==
    /\ ~escaped
    /\ pc = "aw_ret" =>
          /\ aw_ret.done
          /\ aw_ret.value <=> "saved" \in diags
          /\ ~aw_ret.value <=> "aw_error" \in diags
          /\ aw_ret.value => Resolve(cur.output_path) \in (written \cap files)

\* the save failed after the output directory had been made
C5_Witness ==
    /\ pc = "aw_ret"
    /\ ~aw_ret.value
    /\ env.op = "add_watermark"
    /\ Len(dirname(cur.output_path)) > 0
    /\ Resolve(dirname(cur.output_path)) \in dirs
    /\ env.can_create
    /\ Cardinality(read) = 1

-----------------------------------------------------------------------------
(* The exit status of main.                                                *)

InputExists == isdir(env.input_path) \/ isfile(env.input_path)

(* C7: a run of main whose arguments parse ends with exit code 1 if and    *)
(* only if the input path does not exist, and then no output directory is  *)
(* created; every other run ends with exit code 0, also when rendering     *)
(* fails or the output location cannot be created or written.              *)
C7_ExitCode ==
    (env.op = "main" /\ pc = "exit") =>
        /\ exit_code = 1 <=> ~InputExists
        /\ exit_code \in {0, 1}
        /\ ~InputExists => dirs = {<<>>}

-----------------------------------------------------------------------------
(* C8: for every readable input image and every output_path in a writable  *)
(* location, also an output_path with no directory component and one whose *)
(* parent directories do not exist yet, add_watermark ensures the output   *)
(* directory exists, persists the result to output_path and returns True.  *)
C8_OutputDir ==
    (env.op = "add_watermark" /\ pc = "aw_ret" /\ ~faulted) =>
        /\ aw_ret.value
        /\ Resolve(cur.output_path) \in files
        /\ Resolve(dirname(cur.output_path)) \in dirs

-----------------------------------------------------------------------------
(* C9: at most one image file handle is open at any time; a handle opened  *)
(* for a file is closed before the next file is begun and before           *)
(* add_watermark returns, on the success path, the metadata-fallback path  *)
(* and every failure path; at the end of the run no handle is open.        *)
C9_Handles ==
    /\ Len(handles) <= 1
    /\ Len(handles) = 1 => pc \in {"ge_body", "aw_draw", "aw_makedirs", "aw_save"}
                           /\ handles[1] = cur.image_path
    /\ pc \in {"aw_open", "aw_ret", "pd_after", "pd_loop", "main_after", "main_count",
               "returned", "raised", "exit"} => handles = <<>>

\* a later file of a batch is open after an earlier one failed
C9_Witness ==
    /\ Len(handles) = 1
    /\ pc = "aw_save"
    /\ faulted
    /\ Cardinality(Selected) = 2

-----------------------------------------------------------------------------
(* Inputs and outputs of a run of main.                                    *)

MainOutputDir ==
    IF isdir(env.input_path) THEN OutputDir
    ELSE Resolve(output_dir_of(dir_path_of(env.input_path)))

(* C10: in a run started through main every path written differs from      *)
(* every path read as an input image; the output directory is never        *)
(* selected as an input entry, so a second batch over the same directory   *)
(* processes the same files as the first and none of the earlier outputs.  *)
C10_NoOverwrite ==
    env.op = "main" =>
        LET out == MainOutputDir
        IN  /\ read \cap written = {}
            /\ \A r \in read : out \notin Ancestors(r)
            /\ \A w \in written : out \in Ancestors(w)
            /\ \A n \in Selected : n # out[Len(out)]
            /\ (rerun /\ BatchReturned) => Selected = first_selected

C10_Witness ==
    /\ env.op = "main"
    /\ rerun
    /\ BatchReturned
    /\ Cardinality(first_selected) = 2
    /\ Cardinality(written) = 2
    /\ Cardinality(succeeded) = 2

====
